---- MODULE Spec2Model ----
(***************************************************************************)
(* Model of check_for_duplicates.py (Image Deduper): the GUI control       *)
(* surface (start_dedupe, cancel), the background worker dedupe_process    *)
(* (scan, hashing loop, comparison loop, copy of kept images, copy of      *)
(* duplicates to trash, the four report artifacts) and the file system it  *)
(* reads and writes.  Every action is one statement, or the part of one    *)
(* statement, that reads or writes what the threads share (self.running,   *)
(* self.src_dir, self.out_dir, the log box, the progress bar, the file     *)
(* system): the worker threads and the button callbacks of the main thread *)
(* interleave between them.  os.walk lists one directory at a step,        *)
(* os.makedirs tests or makes one directory at a step, and a copy or a     *)
(* report is first opened (the file is there and empty) and then written.  *)
(*                                                                         *)
(* A file path is a record [dir |-> <<components>>, name |-> <<stem, ext>>]*)
(* and a directory is a sequence of components.  The content of a file is  *)
(* a record [kind, hash, resolution]: kind "image" decodes (Image.open and *)
(* imagehash.phash succeed) to the given hash and size, any other kind     *)
(* makes Image.open raise.  A perceptual hash is the set of the positions  *)
(* of its set bits (imagehash keeps an 8x8 boolean array).  A Python dict  *)
(* is a sequence of <<key, value>> pairs in insertion order.               *)
(***************************************************************************)
EXTENDS Integers, Sequences, FiniteSets, Bags, TLC

VARIABLES
    running,   \* self.running
    src_dir,   \* self.src_dir
    out_dir,   \* self.out_dir
    logBox,    \* the lines self.log has inserted in self.logBox, each with the number
               \* of times it is there (a bag: the order of the lines is not kept)
    progress,  \* self.progress: its "maximum" and "value"
    fs,        \* the files: path -> content
    dirs,      \* the directories that exist
    local,     \* thread -> the local variables of its dedupe_process call
    main,      \* the main thread: the statement of the button callback it is at
    clicks,    \* number of clicks on Start and Cancel so far
    fs0        \* the files as they were when the session began (never written)

vars == <<running, src_dir, out_dir, logBox, progress, fs, dirs, local, main, clicks, fs0>>


(***************************************************************************)
(* SETTINGS                                                                *)
(***************************************************************************)
HASH_DISTANCE_THRESHOLD == 5

VALID_EXTS == {".jpg", ".jpeg", ".png", ".bmp", ".tiff", ".gif", ".webp"}

(***************************************************************************)
(* Bounds of the model                                                     *)
(***************************************************************************)
\* longest list of ImageRecords the comparison loop is started on
MaxRecords == 3
\* most files present under the source tree when a run is started
MaxFiles == 3
\* most clicks on the Start and Cancel buttons in one behaviour
MaxClicks == 3

\* a click on Start creates at most one worker thread
Threads == 1..MaxClicks

(***************************************************************************)
(* Python dict as an insertion-ordered sequence of <<key, value>>          *)
(***************************************************************************)
DictKeys(d) == {d[n][1] : n \in 1..Len(d)}

DictHas(d, k) == k \in DictKeys(d)

DictGet(d, k) == d[CHOOSE n \in 1..Len(d) : d[n][1] = k][2]

\* d[k] = v : an existing key keeps its position
DictSet(d, k, v) ==
    IF DictHas(d, k)
    THEN [n \in 1..Len(d) |-> IF d[n][1] = k THEN <<k, v>> ELSE d[n]]
    ELSE Append(d, <<k, v>>)

\* d.setdefault(k, v)
DictSetDefault(d, k, v) == IF DictHas(d, k) THEN d ELSE Append(d, <<k, v>>)

\* del d[k]
DictDel(d, k) == SelectSeq(d, LAMBDA e : e[1] # k)

(***************************************************************************)
(* os.path                                                                 *)
(***************************************************************************)
\* os.path.join(directory, file name)
join(d, name) == [dir |-> d, name |-> name]

\* os.path.join(directory, "trash")
joindir(d, sub) == Append(d, sub)

basename(p) == p.name

\* directory e is d or lies below d; nothing lies below the empty path ''
IsPrefix(d, e) == d # <<>> /\ Len(d) <= Len(e) /\ SubSeq(e, 1, Len(d)) = d

\* str.lower() on the extensions the model uses
lower(ext) ==
    CASE ext = ".JPG" -> ".jpg"
      [] ext = ".PNG" -> ".png"
      [] OTHER -> ext

\* os.path.splitext(f)[1]
splitext1(name) == name[2]

(***************************************************************************)
(* HELPERS                                                                 *)
(***************************************************************************)
\* format_resolution: "unknown" for a missing tuple, else f"{w}x{h}"
format_resolution(res_tuple) ==
    IF res_tuple = <<>> THEN <<"unknown">>
    ELSE <<res_tuple[1], "x", res_tuple[2]>>

\* imagehash.ImageHash.__sub__ : number of positions where the hashes differ
HashSub(h1, h2) == Cardinality((h1 \ h2) \cup (h2 \ h1))

Area(res) == res[1] * res[2]

\* every order in which the elements of a finite set can be listed
Orders(S) ==
    {seq \in [1..Cardinality(S) -> S] :
       \A a, b \in 1..Cardinality(S) : a # b => seq[a] # seq[b]}

\* os.walk lists directory top with one os.scandir(top): its files as they are at
\* that moment; '' and a path that is no directory list nothing
scandir_files(top) ==
    IF top \notin dirs THEN {} ELSE {p \in DOMAIN fs : p.dir = top}

\* the subdirectories the same os.scandir(top) gives
scandir_dirs(top) ==
    IF top \notin dirs THEN {}
    ELSE {d \in dirs : Len(d) = Len(top) + 1 /\ IsPrefix(top, d)}

\* ext = os.path.splitext(f)[1].lower(); if ext in VALID_EXTS
IsImageName(name) == lower(splitext1(name)) \in VALID_EXTS

\* os.path.exists(path) of a directory path
exists_dir(ds, path) == path \in ds

\* os.mkdir(path)
mkdir(ds, path) == ds \cup {path}

\* the directory a file path lies in exists; '' is the current directory
DirOk(p) == p.dir = <<>> \/ p.dir \in dirs

(***************************************************************************)
(* State of one dedupe_process thread (its local variables) and of the     *)
(* main thread (the button callback it is executing)                       *)
(***************************************************************************)
NewThread ==
    [pc |-> "new", images |-> <<>>, total_files |-> 0, hashes |-> <<>>,
     count |-> 0, i |-> 0, j |-> 0, kept |-> <<>>, duplicates |-> <<>>,
     path |-> <<>>, trash_dir |-> <<>>, k |-> 0, dst |-> <<>>,
     duplicate_rows |-> <<>>, csv_path |-> <<>>, json_path |-> <<>>,
     clusters |-> <<>>, json_src |-> <<>>, json_data |-> <<>>,
     report_path |-> <<>>, exc |-> "none", walk |-> <<>>, depth |-> 0,
     img |-> <<>>]

\* the main thread is in the Tk event loop, no callback running
MainIdle == [pc |-> "idle", src |-> <<>>, out |-> <<>>]

\* self.log(msg, arg): the line made of the message and its argument
LogLine(msg, arg) == [msg |-> msg, arg |-> arg]

\* self.logBox.insert(tk.END, text): the log box with one more line
Insert(box, line) == box (+) SetToBag({line})

\* leaving the try block of dedupe_process, by return or by an exception: the
\* finally clause is what the thread runs next
Leave(st, exc) == [st EXCEPT !.pc = "finally", !.exc = exc]

\* finally: self.running = False
Finally(t) ==
    /\ local[t].pc = "finally"
    /\ running' = FALSE
    /\ local' = [local EXCEPT ![t].pc = "done"]
    /\ UNCHANGED <<src_dir, out_dir, logBox, progress, fs, dirs, main, clicks, fs0>>

(***************************************************************************)
(* CONTROL: the two button callbacks run on the main thread, one at a      *)
(* time; the worker threads run between their statements                   *)
(***************************************************************************)
\* Cancel clicked: self.running = False
cancel ==
    /\ main.pc = "idle"
    /\ clicks < MaxClicks
    /\ clicks' = clicks + 1
    /\ running' = FALSE
    /\ main' = [main EXCEPT !.pc = "cancel_log"]
    /\ UNCHANGED <<src_dir, out_dir, logBox, progress, fs, dirs, local, fs0>>

\* self.log("Cancel requested")
CancelLog ==
    /\ main.pc = "cancel_log"
    /\ logBox' = Insert(logBox, LogLine("Cancel requested", <<>>))
    /\ main' = MainIdle
    /\ UNCHANGED <<running, src_dir, out_dir, progress, fs, dirs, local, clicks, fs0>>

\* os.path.isdir of a text entry; the empty entry is the empty sequence
isdir(d) == d \in dirs

\* the thread threading.Thread(...).start() creates: the first unused one
IsFresh(t) == local[t].pc = "new" /\ \A u \in Threads : u < t => local[u].pc # "new"

\* Start clicked with the two entries holding src and out: if self.running: return
start_dedupe(src, out) ==
    /\ main.pc = "idle"
    /\ clicks < MaxClicks
    /\ clicks' = clicks + 1
    /\ IF running
       THEN UNCHANGED main
       ELSE main' = [pc |-> "set_src", src |-> src, out |-> out]
    /\ UNCHANGED <<running, src_dir, out_dir, logBox, progress, fs, dirs, local, fs0>>

\* self.src_dir = self.src_entry.get().strip()
StartSetSrc ==
    /\ main.pc = "set_src"
    /\ src_dir' = main.src
    /\ main' = [main EXCEPT !.pc = "set_out"]
    /\ UNCHANGED <<running, out_dir, logBox, progress, fs, dirs, local, clicks, fs0>>

\* self.out_dir = self.out_entry.get().strip()
StartSetOut ==
    /\ main.pc = "set_out"
    /\ out_dir' = main.out
    /\ main' = [main EXCEPT !.pc = "check_src"]
    /\ UNCHANGED <<running, src_dir, logBox, progress, fs, dirs, local, clicks, fs0>>

\* if not self.src_dir or not os.path.isdir(self.src_dir)
StartCheckSrc ==
    /\ main.pc = "check_src"
    /\ main' = [main EXCEPT !.pc = IF src_dir = <<>> \/ ~isdir(src_dir)
                                    THEN "log_bad_src" ELSE "check_out"]
    /\ UNCHANGED <<running, src_dir, out_dir, logBox, progress, fs, dirs, local, clicks, fs0>>

\* self.log("Invalid source directory."); return
StartLogBadSrc ==
    /\ main.pc = "log_bad_src"
    /\ logBox' = Insert(logBox, LogLine("Invalid source directory.", <<>>))
    /\ main' = MainIdle
    /\ UNCHANGED <<running, src_dir, out_dir, progress, fs, dirs, local, clicks, fs0>>

\* if not self.out_dir or not os.path.isdir(self.out_dir)
StartCheckOut ==
    /\ main.pc = "check_out"
    /\ main' = [main EXCEPT !.pc = IF out_dir = <<>> \/ ~isdir(out_dir)
                                    THEN "log_bad_out" ELSE "set_running"]
    /\ UNCHANGED <<running, src_dir, out_dir, logBox, progress, fs, dirs, local, clicks, fs0>>

\* self.log("Invalid output directory."); return
StartLogBadOut ==
    /\ main.pc = "log_bad_out"
    /\ logBox' = Insert(logBox, LogLine("Invalid output directory.", <<>>))
    /\ main' = MainIdle
    /\ UNCHANGED <<running, src_dir, out_dir, progress, fs, dirs, local, clicks, fs0>>

\* self.running = True
StartSetRunning ==
    /\ main.pc = "set_running"
    /\ running' = TRUE
    /\ main' = [main EXCEPT !.pc = "start_thread"]
    /\ UNCHANGED <<src_dir, out_dir, logBox, progress, fs, dirs, local, clicks, fs0>>

\* threading.Thread(target=self.dedupe_process, daemon=True).start()
StartThread ==
    /\ main.pc = "start_thread"
    /\ \E t \in Threads :
         /\ IsFresh(t)
         /\ local' = [local EXCEPT ![t].pc = "scan"]
    /\ main' = MainIdle
    /\ UNCHANGED <<running, src_dir, out_dir, logBox, progress, fs, dirs, clicks, fs0>>

\* the statements of start_dedupe after its first
StartStep ==
    \/ StartSetSrc \/ StartSetOut
    \/ StartCheckSrc \/ StartLogBadSrc
    \/ StartCheckOut \/ StartLogBadOut
    \/ StartSetRunning \/ StartThread

(***************************************************************************)
(* MAIN DEDUPE ENGINE: scan                                                *)
(***************************************************************************)
\* self.log("Scanning for images...")
ScanLog(t) ==
    /\ local[t].pc = "scan"
    /\ logBox' = Insert(logBox, LogLine("Scanning for images...", <<>>))
    /\ local' = [local EXCEPT ![t].pc = "walk"]
    /\ UNCHANGED <<running, src_dir, out_dir, progress, fs, dirs, main, clicks, fs0>>

\* images = list(find_images_recursive(self.src_dir)): self.src_dir is read and
\* os.walk begins with it as the one directory to visit
Scan(t) ==
    /\ local[t].pc = "walk"
    /\ local' = [local EXCEPT ![t] =
                   [@ EXCEPT !.walk = <<src_dir>>, !.images = <<>>, !.pc = "walking"]]
    /\ UNCHANGED <<running, src_dir, out_dir, logBox, progress, fs, dirs, main, clicks, fs0>>

\* one iteration of "for root, _, files in os.walk(rootdir)": the next directory is
\* listed, its image files are yielded in the order of the listing and its
\* subdirectories are visited next, before the directories still to visit; after
\* the last directory total_files = len(images)
find_images_recursive(t) ==
    /\ local[t].pc = "walking"
    /\ LET st == local[t]
           root == Head(st.walk)
       IN  \E files \in Orders({p \in scandir_files(root) : IsImageName(p.name)}),
              subdirs \in Orders(scandir_dirs(root)) :
             LET images == st.images \o files
                 walk == subdirs \o Tail(st.walk)
             IN  local' = [local EXCEPT ![t] =
                             IF walk = <<>>
                             THEN [st EXCEPT !.images = images, !.walk = walk,
                                             !.total_files = Len(images),
                                             !.pc = "set_maximum"]
                             ELSE [st EXCEPT !.images = images, !.walk = walk]]
    /\ UNCHANGED <<running, src_dir, out_dir, logBox, progress, fs, dirs, main, clicks, fs0>>

\* self.progress["maximum"] = total_files
SetMaximum(t) ==
    /\ local[t].pc = "set_maximum"
    /\ progress' = [progress EXCEPT !.maximum = local[t].total_files]
    /\ local' = [local EXCEPT ![t].pc = "log_found"]
    /\ UNCHANGED <<running, src_dir, out_dir, logBox, fs, dirs, main, clicks, fs0>>

\* self.log(f"Found {total_files} images."); hashes = []; count = 0
LogFound(t) ==
    /\ local[t].pc = "log_found"
    /\ logBox' = Insert(logBox, LogLine("Found images.", local[t].total_files))
    /\ local' = [local EXCEPT ![t] =
                   IF local[t].total_files = 0
                   THEN [@ EXCEPT !.pc = "empty"]
                   ELSE [@ EXCEPT !.pc = "log_hashing", !.hashes = <<>>, !.count = 0]]
    /\ UNCHANGED <<running, src_dir, out_dir, progress, fs, dirs, main, clicks, fs0>>

\* if total_files == 0: self.running = False; return
EmptyReturn(t) ==
    /\ local[t].pc = "empty"
    /\ running' = FALSE
    /\ local' = [local EXCEPT ![t] = Leave(@, "none")]
    /\ UNCHANGED <<src_dir, out_dir, logBox, progress, fs, dirs, main, clicks, fs0>>

(***************************************************************************)
(* HASHING LOOP                                                            *)
(***************************************************************************)
\* self.log("Computing perceptual hashes...")
LogHashing(t) ==
    /\ local[t].pc = "log_hashing"
    /\ logBox' = Insert(logBox, LogLine("Computing perceptual hashes...", <<>>))
    /\ local' = [local EXCEPT ![t].pc = "hash"]
    /\ UNCHANGED <<running, src_dir, out_dir, progress, fs, dirs, main, clicks, fs0>>

\* for img_path in images: if not self.running: return
HashNext(t) ==
    /\ local[t].pc = "hash"
    /\ local[t].count < Len(local[t].images)
    /\ local' = [local EXCEPT ![t] =
                   IF ~running THEN Leave(@, "none") ELSE [@ EXCEPT !.pc = "decode"]]
    /\ UNCHANGED <<running, src_dir, out_dir, logBox, progress, fs, dirs, main, clicks, fs0>>

\* the file at img_path is one Image.open and imagehash.phash can read
Decodes(img_path) == img_path \in DOMAIN fs /\ fs[img_path].kind = "image"

\* the record appended for a file of size resolution and hash ph
ImageRecord(img_path, resolution, ph) ==
    [path |-> img_path,
     hash |-> ph,
     resolution |-> resolution,
     resolution_str |-> format_resolution(resolution)]

\* the hashing loop without its try/except: the exception ends the thread
AbortOnDecodeFailure(st) == Leave(st, "Exception")

\* except Exception as e: the thread goes on to log the failure
AfterDecodeFailure(st) == [st EXCEPT !.pc = "log_failed"]

\* with Image.open(img_path) as img: w, h = img.size: the file is opened and its
\* header read; img is what the file holds at this moment
OpenImage(t) ==
    /\ local[t].pc = "decode"
    /\ LET st == local[t]
           img_path == st.images[st.count + 1]
       IN  local' = [local EXCEPT ![t] =
                       IF Decodes(img_path)
                       THEN [st EXCEPT !.img = fs[img_path], !.pc = "phash"]
                       ELSE AfterDecodeFailure(st)]
    /\ UNCHANGED <<running, src_dir, out_dir, logBox, progress, fs, dirs, main, clicks, fs0>>

\* what imagehash.phash(img) gives when the file holds now: the hash of img when
\* the file is as it was opened; when it has been written since, the hash of what
\* was read at the opening, the hash of what it holds now, or an exception
phash(img, now) ==
    IF now = img THEN {[ok |-> TRUE, hash |-> img.hash]}
    ELSE {[ok |-> TRUE, hash |-> img.hash], [ok |-> FALSE, hash |-> {}]}
         \cup (IF now.kind = "image" THEN {[ok |-> TRUE, hash |-> now.hash]} ELSE {})

\* ph = imagehash.phash(img): the pixels are read from the open file;
\* hashes.append({...}) with the size read at the opening
HashOne(t) ==
    /\ local[t].pc = "phash"
    /\ LET st == local[t]
           img_path == st.images[st.count + 1]
       IN  \E ph \in phash(st.img, fs[img_path]) :
             local' = [local EXCEPT ![t] =
                         IF ph.ok
                         THEN [st EXCEPT !.hashes =
                                           Append(st.hashes,
                                                  ImageRecord(img_path, st.img.resolution,
                                                              ph.hash)),
                                         !.pc = "set_value"]
                         ELSE AfterDecodeFailure(st)]
    /\ UNCHANGED <<running, src_dir, out_dir, logBox, progress, fs, dirs, main, clicks, fs0>>

\* self.log("Failed to read:", img_path, " - ", e)
LogFailed(t) ==
    /\ local[t].pc = "log_failed"
    /\ logBox' = Insert(logBox, LogLine("Failed to read:", local[t].images[local[t].count + 1]))
    /\ local' = [local EXCEPT ![t].pc = "set_value"]
    /\ UNCHANGED <<running, src_dir, out_dir, progress, fs, dirs, main, clicks, fs0>>

\* self.progress["value"] = count; count += 1
SetValue(t) ==
    /\ local[t].pc = "set_value"
    /\ progress' = [progress EXCEPT !.value = local[t].count]
    /\ local' = [local EXCEPT ![t] = [@ EXCEPT !.count = @ + 1, !.pc = "hash"]]
    /\ UNCHANGED <<running, src_dir, out_dir, logBox, fs, dirs, main, clicks, fs0>>

\* the loop over images is exhausted: self.log("Hashing complete.")
HashDone(t) ==
    /\ local[t].pc = "hash"
    /\ local[t].count = Len(local[t].images)
    /\ logBox' = Insert(logBox, LogLine("Hashing complete.", <<>>))
    /\ local' = [local EXCEPT ![t].pc = "log_finding"]
    /\ UNCHANGED <<running, src_dir, out_dir, progress, fs, dirs, main, clicks, fs0>>

(***************************************************************************)
(* COMPARISON                                                              *)
(***************************************************************************)
\* self.log("Finding duplicates..."); kept = {}; duplicates = {}
LogFinding(t) ==
    /\ local[t].pc = "log_finding"
    /\ logBox' = Insert(logBox, LogLine("Finding duplicates...", <<>>))
    /\ local' = [local EXCEPT ![t] =
                   [@ EXCEPT !.pc = "outer", !.kept = <<>>, !.duplicates = <<>>, !.i = 0]]
    /\ UNCHANGED <<running, src_dir, out_dir, progress, fs, dirs, main, clicks, fs0>>

\* a strict threshold test
WithinThresholdStrict(dist) == dist < HASH_DISTANCE_THRESHOLD

\* if dist <= HASH_DISTANCE_THRESHOLD
WithinThreshold(dist) == dist <= HASH_DISTANCE_THRESHOLD

\* a comparison of the two tuples by identity instead of by value
SameResolutionObject(A, B) == A.path = B.path

\* if A["resolution"] == B["resolution"]
SameResolution(A, B) == A.resolution = B.resolution

\* the area test with > in the place of >=
KeepsAStrict(A, B) == Area(A.resolution) > Area(B.resolution)

\* if A w*h >= B w*h : B is the duplicate, else A is
KeepsA(A, B) == Area(A.resolution) >= Area(B.resolution)

\* one pass of the body of the inner loop, on <<kept, duplicates>>
CompareBody(kept, duplicates, A, B) ==
    LET dist == HashSub(A.hash, B.hash)
    IN  IF DictHas(duplicates, B.path) THEN <<kept, duplicates>>
        ELSE IF ~WithinThreshold(dist) THEN <<kept, duplicates>>
        ELSE IF SameResolution(A, B) THEN <<kept, duplicates>>
        ELSE IF KeepsA(A, B)
             THEN <<kept, DictSet(duplicates, B.path, <<A.path, dist>>)>>
             ELSE <<DictSet(IF DictHas(kept, A.path) THEN DictDel(kept, A.path) ELSE kept,
                            B.path, B),
                    DictSet(duplicates, A.path, <<B.path, dist>>)>>


\* top of one iteration of "for i in range(len(hashes))"
Outer(t) ==
    /\ local[t].pc = "outer"
    /\ local[t].i < Len(local[t].hashes)
    /\ LET st == local[t]
           A == st.hashes[st.i + 1]
       IN  IF ~running
           THEN local' = [local EXCEPT ![t] = Leave(st, "none")]
           ELSE IF DictHas(st.duplicates, A.path)
           THEN local' = [local EXCEPT ![t] = [st EXCEPT !.i = st.i + 1]]
           ELSE local' = [local EXCEPT ![t] =
                            [st EXCEPT !.kept = DictSetDefault(st.kept, A.path, A),
                                       !.j = st.i + 1,
                                       !.pc = "inner"]]
    /\ UNCHANGED <<running, src_dir, out_dir, logBox, progress, fs, dirs, main, clicks, fs0>>

\* variant: the inner loop is left as soon as its anchor has been demoted
InnerLeavesOnDemotion(t) ==
    /\ local[t].pc = "inner"
    /\ local[t].j < Len(local[t].hashes)
    /\ LET st == local[t]
           A == st.hashes[st.i + 1]
           r == CompareBody(st.kept, st.duplicates, A, st.hashes[st.j + 1])
       IN  local' = [local EXCEPT ![t] =
                       [st EXCEPT !.kept = r[1], !.duplicates = r[2],
                                  !.j = IF DictHas(r[2], A.path) THEN Len(st.hashes)
                                                                 ELSE st.j + 1]]
    /\ UNCHANGED <<running, src_dir, out_dir, logBox, progress, fs, dirs, main, clicks, fs0>>

\* one iteration of "for j in range(i+1, len(hashes))"
Inner(t) ==
    /\ local[t].pc = "inner"
    /\ local[t].j < Len(local[t].hashes)
    /\ LET st == local[t]
           r == CompareBody(st.kept, st.duplicates, st.hashes[st.i + 1], st.hashes[st.j + 1])
       IN  local' = [local EXCEPT ![t] =
                       [st EXCEPT !.kept = r[1], !.duplicates = r[2], !.j = st.j + 1]]
    /\ UNCHANGED <<running, src_dir, out_dir, logBox, progress, fs, dirs, main, clicks, fs0>>

\* the inner loop is exhausted: next i
InnerDone(t) ==
    /\ local[t].pc = "inner"
    /\ local[t].j = Len(local[t].hashes)
    /\ local' = [local EXCEPT ![t] = [@ EXCEPT !.i = @ + 1, !.pc = "outer"]]
    /\ UNCHANGED <<running, src_dir, out_dir, logBox, progress, fs, dirs, main, clicks, fs0>>

\* the outer loop is exhausted: self.log(f"Found {len(duplicates)} duplicates.")
OuterDone(t) ==
    /\ local[t].pc = "outer"
    /\ local[t].i = Len(local[t].hashes)
    /\ logBox' = Insert(logBox, LogLine("Found duplicates.", Len(local[t].duplicates)))
    /\ local' = [local EXCEPT ![t].pc = "mkdir_out"]
    /\ UNCHANGED <<running, src_dir, out_dir, progress, fs, dirs, main, clicks, fs0>>

(***************************************************************************)
(* COPY KEPT IMAGES                                                        *)
(***************************************************************************)
\* safe_mkdir(self.out_dir): the argument is read
MkdirOut(t) ==
    /\ local[t].pc = "mkdir_out"
    /\ local' = [local EXCEPT ![t] = [@ EXCEPT !.path = out_dir, !.pc = "exists_out"]]
    /\ UNCHANGED <<running, src_dir, out_dir, logBox, progress, fs, dirs, main, clicks, fs0>>

\* trash_dir = os.path.join(self.out_dir, "trash"); safe_mkdir(trash_dir) is called
JoinTrash(t) ==
    /\ local[t].pc = "join_trash"
    /\ local' = [local EXCEPT ![t] =
                   [@ EXCEPT !.trash_dir = joindir(out_dir, "trash"),
                             !.path = joindir(out_dir, "trash"),
                             !.pc = "exists_trash"]]
    /\ UNCHANGED <<running, src_dir, out_dir, logBox, progress, fs, dirs, main, clicks, fs0>>

\* safe_mkdir: if not os.path.exists(path); os.makedirs(path) is entered when
\* the path does not exist
SafeMkdirTest(t) ==
    /\ local[t].pc \in {"exists_out", "exists_trash"}
    /\ local' = [local EXCEPT ![t] =
                   IF exists_dir(dirs, local[t].path)
                   THEN [@ EXCEPT !.pc = IF local[t].pc = "exists_out"
                                         THEN "join_trash" ELSE "log_copying"]
                   ELSE [@ EXCEPT !.depth = Len(local[t].path),
                                  !.pc = IF local[t].pc = "exists_out"
                                         THEN "head_out" ELSE "head_trash"]]
    /\ UNCHANGED <<running, src_dir, out_dir, logBox, progress, fs, dirs, main, clicks, fs0>>

\* os.makedirs(name) with name the first depth components of path:
\* "if head and tail and not path.exists(head)" calls makedirs(head), else
\* os.mkdir(name) is next
MakedirsHead(t) ==
    /\ local[t].pc \in {"head_out", "head_trash"}
    /\ LET st == local[t]
           head == SubSeq(st.path, 1, st.depth - 1)
       IN  local' = [local EXCEPT ![t] =
                       IF st.depth > 1 /\ ~exists_dir(dirs, head)
                       THEN [st EXCEPT !.depth = st.depth - 1]
                       ELSE [st EXCEPT !.pc = IF st.pc = "head_out"
                                              THEN "makedirs_out" ELSE "makedirs_trash"]]
    /\ UNCHANGED <<running, src_dir, out_dir, logBox, progress, fs, dirs, main, clicks, fs0>>

\* os.mkdir(name) inside os.makedirs: FileNotFoundError on the empty name;
\* FileExistsError when the directory has been made since the test, which
\* makedirs passes over for a parent and raises for the path itself
SafeMkdirMake(t) ==
    /\ local[t].pc \in {"makedirs_out", "makedirs_trash"}
    /\ LET st == local[t]
           name == SubSeq(st.path, 1, st.depth)
           last == st.depth = Len(st.path)
           after == IF st.pc = "makedirs_out" THEN "join_trash" ELSE "log_copying"
       IN  IF name = <<>> \/ (last /\ exists_dir(dirs, name))
           THEN /\ local' = [local EXCEPT ![t] = Leave(st, "OSError")]
                /\ UNCHANGED dirs
           ELSE /\ dirs' = mkdir(dirs, name)
                /\ local' = [local EXCEPT ![t] =
                               IF last THEN [st EXCEPT !.pc = after]
                               ELSE [st EXCEPT !.depth = st.depth + 1]]
    /\ UNCHANGED <<running, src_dir, out_dir, logBox, progress, fs, main, clicks, fs0>>

\* self.log("Copying kept images...")
LogCopying(t) ==
    /\ local[t].pc = "log_copying"
    /\ logBox' = Insert(logBox, LogLine("Copying kept images...", <<>>))
    /\ local' = [local EXCEPT ![t] = [@ EXCEPT !.pc = "copy_kept", !.k = 0]]
    /\ UNCHANGED <<running, src_dir, out_dir, progress, fs, dirs, main, clicks, fs0>>

\* the file system after path is written with content c
WriteFile(files, path, c) ==
    [q \in DOMAIN files \cup {path} |-> IF q = path THEN c ELSE files[q]]

\* a file that open(path, "w") has created or truncated and that has no content yet
EmptyFile == [kind |-> "empty", hash |-> {}, resolution |-> <<0, 0>>]

\* a file two threads have written over each other
Garbled == [kind |-> "corrupt", hash |-> {}, resolution |-> <<0, 0>>]

\* what the file at dst holds after content c is written from its beginning
\* through a descriptor opened before: what it held when c is empty (no byte is
\* written); else c, or c followed by the end of what another thread wrote
\* there since, when that was longer
Written(files, dst, c) ==
    IF c = EmptyFile THEN {files[dst]}
    ELSE IF files[dst] \in {EmptyFile, c} THEN {c} ELSE {c, Garbled}

\* for k in kept.values(): dst = os.path.join(self.out_dir, os.path.basename(k["path"]))
CopyKeptDst(t) ==
    /\ local[t].pc = "copy_kept"
    /\ local[t].k < Len(local[t].kept)
    /\ local' = [local EXCEPT ![t] =
                   [@ EXCEPT !.dst = join(out_dir, basename(local[t].kept[local[t].k + 1][2].path)),
                             !.pc = "exists_dst"]]
    /\ UNCHANGED <<running, src_dir, out_dir, logBox, progress, fs, dirs, main, clicks, fs0>>

\* os.path.exists(dst)
Exists(files, dst) == dst \in DOMAIN files

\* if not os.path.exists(dst)
CopyKeptTest(t) ==
    /\ local[t].pc = "exists_dst"
    /\ local' = [local EXCEPT ![t] =
                   IF Exists(fs, local[t].dst)
                   THEN [@ EXCEPT !.k = @ + 1, !.pc = "copy_kept"]
                   ELSE [@ EXCEPT !.pc = "copy2_kept"]]
    /\ UNCHANGED <<running, src_dir, out_dir, logBox, progress, fs, dirs, main, clicks, fs0>>

\* shutil.copy2(k["path"], dst) up to open(dst, "wb"): SameFileError when source
\* and destination are one file, else the destination is created or truncated
CopyKept(t) ==
    /\ local[t].pc = "copy2_kept"
    /\ LET st == local[t]
           path == st.kept[st.k + 1][2].path
       IN  IF path = st.dst
           THEN /\ local' = [local EXCEPT ![t] = Leave(st, "SameFileError")]
                /\ UNCHANGED fs
           ELSE IF ~DirOk(st.dst)
           THEN /\ local' = [local EXCEPT ![t] = Leave(st, "OSError")]
                /\ UNCHANGED fs
           ELSE /\ fs' = WriteFile(fs, st.dst, EmptyFile)
                /\ local' = [local EXCEPT ![t] = [st EXCEPT !.pc = "write_kept"]]
    /\ UNCHANGED <<running, src_dir, out_dir, logBox, progress, dirs, main, clicks, fs0>>

\* shutil.copy2, the rest: the content of the source as it is now is written
CopyKeptWrite(t) ==
    /\ local[t].pc = "write_kept"
    /\ LET st == local[t]
           path == st.kept[st.k + 1][2].path
       IN  /\ \E c \in Written(fs, st.dst, fs[path]) : fs' = WriteFile(fs, st.dst, c)
           /\ local' = [local EXCEPT ![t] = [st EXCEPT !.k = st.k + 1, !.pc = "copy_kept"]]
    /\ UNCHANGED <<running, src_dir, out_dir, logBox, progress, dirs, main, clicks, fs0>>

(***************************************************************************)
(* MOVE DUPLICATES -> TRASH                                                *)
(***************************************************************************)
\* the loop over kept is exhausted: self.log("Moving duplicates to trash...")
CopyKeptDone(t) ==
    /\ local[t].pc = "copy_kept"
    /\ local[t].k = Len(local[t].kept)
    /\ logBox' = Insert(logBox, LogLine("Moving duplicates to trash...", <<>>))
    /\ local' = [local EXCEPT ![t] =
                   [@ EXCEPT !.pc = "copy_trash", !.duplicate_rows = <<>>, !.k = 0]]
    /\ UNCHANGED <<running, src_dir, out_dir, progress, fs, dirs, main, clicks, fs0>>

\* next(h for h in hashes if h["path"] == path)
FirstWithPath(hashes, path) ==
    hashes[CHOOSE n \in 1..Len(hashes) :
             /\ hashes[n].path = path
             /\ \A m \in 1..(n - 1) : hashes[m].path # path]

\* the trash copy of the k-th entry of duplicates: os.path.join(trash_dir, filename)
TrashLoc(st) == join(st.trash_dir, basename(st.duplicates[st.k + 1][1]))

\* one iteration of "for dup_path, (kept_path, dist) in duplicates.items()", up to
\* the open(trash_loc, "wb") of shutil.copy2, which raises SameFileError when
\* source and destination are one file
CopyTrash(t) ==
    /\ local[t].pc = "copy_trash"
    /\ local[t].k < Len(local[t].duplicates)
    /\ LET st == local[t]
           dup_path == st.duplicates[st.k + 1][1]
           trash_loc == TrashLoc(st)
       IN  IF dup_path = trash_loc
           THEN /\ local' = [local EXCEPT ![t] = Leave(st, "SameFileError")]
                /\ UNCHANGED fs
           ELSE IF ~DirOk(trash_loc)
           THEN /\ local' = [local EXCEPT ![t] = Leave(st, "OSError")]
                /\ UNCHANGED fs
           ELSE /\ fs' = WriteFile(fs, trash_loc, EmptyFile)
                /\ local' = [local EXCEPT ![t] = [st EXCEPT !.pc = "write_trash"]]
    /\ UNCHANGED <<running, src_dir, out_dir, logBox, progress, dirs, main, clicks, fs0>>

\* the rest of the iteration: the content of the source as it is now is written,
\* then the row of the duplicate is appended
CopyTrashWrite(t) ==
    /\ local[t].pc = "write_trash"
    /\ LET st == local[t]
           dup_path == st.duplicates[st.k + 1][1]
           kept_path == st.duplicates[st.k + 1][2][1]
           dist == st.duplicates[st.k + 1][2][2]
           trash_loc == TrashLoc(st)
           A == FirstWithPath(st.hashes, dup_path)
           B == FirstWithPath(st.hashes, kept_path)
       IN  /\ \E c \in Written(fs, trash_loc, fs[dup_path]) :
                fs' = WriteFile(fs, trash_loc, c)
           /\ local' = [local EXCEPT ![t] =
                          [st EXCEPT !.k = st.k + 1,
                                     !.pc = "copy_trash",
                                     !.duplicate_rows =
                                        Append(st.duplicate_rows,
                                               <<dup_path, trash_loc, A.resolution_str,
                                                 kept_path, B.resolution_str, dist>>)]]
    /\ UNCHANGED <<running, src_dir, out_dir, logBox, progress, dirs, main, clicks, fs0>>

(***************************************************************************)
(* The four report artifacts.  open(path, "w") raises OSError when the     *)
(* file cannot be written (ok = FALSE) or its directory does not exist;    *)
(* nothing in dedupe_process catches it, so the thread goes to its finally *)
(* clause.  Else the file is there, empty, until the with block has        *)
(* written it.                                                             *)
(***************************************************************************)
ReportContent(kind) == [kind |-> kind, hash |-> {}, resolution |-> <<0, 0>>]

\* the loop over duplicates is exhausted:
\* csv_path = os.path.join(self.out_dir, "duplicate_log.csv")
CopyTrashDone(t) ==
    /\ local[t].pc = "copy_trash"
    /\ local[t].k = Len(local[t].duplicates)
    /\ local' = [local EXCEPT ![t] =
                   [@ EXCEPT !.csv_path = join(out_dir, <<"duplicate_log", ".csv">>),
                             !.pc = "log_csv"]]
    /\ UNCHANGED <<running, src_dir, out_dir, logBox, progress, fs, dirs, main, clicks, fs0>>

\* self.log("Writing CSV log:", csv_path)
LogCsv(t) ==
    /\ local[t].pc = "log_csv"
    /\ logBox' = Insert(logBox, LogLine("Writing CSV log:", local[t].csv_path))
    /\ local' = [local EXCEPT ![t].pc = "write_csv"]
    /\ UNCHANGED <<running, src_dir, out_dir, progress, fs, dirs, main, clicks, fs0>>

\* WRITE CSV LOG: with open(csv_path, "w", ...) as f
OpenCsv(t, ok) ==
    /\ local[t].pc = "write_csv"
    /\ IF ok /\ DirOk(local[t].csv_path)
       THEN /\ fs' = WriteFile(fs, local[t].csv_path, EmptyFile)
            /\ local' = [local EXCEPT ![t].pc = "dump_csv"]
       ELSE /\ local' = [local EXCEPT ![t] = Leave(@, "OSError")]
            /\ UNCHANGED fs
    /\ UNCHANGED <<running, src_dir, out_dir, logBox, progress, dirs, main, clicks, fs0>>

\* the rows are written and the file is closed
WriteCsv(t) ==
    /\ local[t].pc = "dump_csv"
    /\ fs' = WriteFile(fs, local[t].csv_path, ReportContent("csv"))
    /\ local' = [local EXCEPT ![t].pc = "log_trash_csv"]
    /\ UNCHANGED <<running, src_dir, out_dir, logBox, progress, dirs, main, clicks, fs0>>

\* trash_csv = os.path.join(trash_dir, "duplicate_details.csv")
TrashCsv(st) == join(st.trash_dir, <<"duplicate_details", ".csv">>)

\* self.log("Writing trash CSV:", trash_csv)
LogTrashCsv(t) ==
    /\ local[t].pc = "log_trash_csv"
    /\ logBox' = Insert(logBox, LogLine("Writing trash CSV:", TrashCsv(local[t])))
    /\ local' = [local EXCEPT ![t].pc = "write_trash_csv"]
    /\ UNCHANGED <<running, src_dir, out_dir, progress, fs, dirs, main, clicks, fs0>>

\* WRITE TRASH CSV: with open(trash_csv, "w", ...) as f
OpenTrashCsv(t, ok) ==
    /\ local[t].pc = "write_trash_csv"
    /\ IF ok /\ DirOk(TrashCsv(local[t]))
       THEN /\ fs' = WriteFile(fs, TrashCsv(local[t]), EmptyFile)
            /\ local' = [local EXCEPT ![t].pc = "dump_trash_csv"]
       ELSE /\ local' = [local EXCEPT ![t] = Leave(@, "OSError")]
            /\ UNCHANGED fs
    /\ UNCHANGED <<running, src_dir, out_dir, logBox, progress, dirs, main, clicks, fs0>>

\* the rows are written and the file is closed
WriteTrashCsv(t) ==
    /\ local[t].pc = "dump_trash_csv"
    /\ fs' = WriteFile(fs, TrashCsv(local[t]), ReportContent("csv"))
    /\ local' = [local EXCEPT ![t].pc = "json_path"]
    /\ UNCHANGED <<running, src_dir, out_dir, logBox, progress, dirs, main, clicks, fs0>>

\* clusters.setdefault(kept_path, []).append(dup_path), over duplicates.items()
RECURSIVE Clusters(_, _)
Clusters(duplicates, n) ==
    IF n = 0 THEN <<>>
    ELSE LET before == Clusters(duplicates, n - 1)
             dup_path == duplicates[n][1]
             kept_path == duplicates[n][2][1]
         IN  IF DictHas(before, kept_path)
             THEN DictSet(before, kept_path, Append(DictGet(before, kept_path), dup_path))
             ELSE Append(before, <<kept_path, <<dup_path>>>>)

\* json_path = os.path.join(self.out_dir, "dedupe_session.json"); clusters = {}; for ...
JsonPath(t) ==
    /\ local[t].pc = "json_path"
    /\ local' = [local EXCEPT ![t] =
                   [@ EXCEPT !.json_path = join(out_dir, <<"dedupe_session", ".json">>),
                             !.clusters = Clusters(local[t].duplicates, Len(local[t].duplicates)),
                             !.pc = "json_src"]]
    /\ UNCHANGED <<running, src_dir, out_dir, logBox, progress, fs, dirs, main, clicks, fs0>>

\* json_data = {..., "source_directory": self.src_dir,
JsonSrc(t) ==
    /\ local[t].pc = "json_src"
    /\ local' = [local EXCEPT ![t] = [@ EXCEPT !.json_src = src_dir, !.pc = "json_out"]]
    /\ UNCHANGED <<running, src_dir, out_dir, logBox, progress, fs, dirs, main, clicks, fs0>>

\* the json_data dict, self.out_dir being read after self.src_dir
JsonData(st) ==
    [source_directory |-> st.json_src,
     output_directory |-> out_dir,
     trash_directory |-> st.trash_dir,
     total_scanned |-> st.total_files,
     total_kept |-> Len(st.kept),
     total_duplicates |-> Len(st.duplicates),
     hash_method |-> "phash",
     hash_distance_threshold |-> HASH_DISTANCE_THRESHOLD,
     clusters |-> st.clusters]

\* "output_directory": self.out_dir, ..., "clusters": clusters}
JsonOut(t) ==
    /\ local[t].pc = "json_out"
    /\ local' = [local EXCEPT ![t] =
                   [@ EXCEPT !.json_data = <<JsonData(local[t])>>, !.pc = "write_json"]]
    /\ UNCHANGED <<running, src_dir, out_dir, logBox, progress, fs, dirs, main, clicks, fs0>>

\* JSON REPORT: with open(json_path, "w", ...) as jf
OpenJson(t, ok) ==
    /\ local[t].pc = "write_json"
    /\ IF ok /\ DirOk(local[t].json_path)
       THEN /\ fs' = WriteFile(fs, local[t].json_path, EmptyFile)
            /\ local' = [local EXCEPT ![t].pc = "dump_json"]
       ELSE /\ local' = [local EXCEPT ![t] = Leave(@, "OSError")]
            /\ UNCHANGED fs
    /\ UNCHANGED <<running, src_dir, out_dir, logBox, progress, dirs, main, clicks, fs0>>

\* json.dump(json_data, jf, indent=4) and the file is closed
WriteJson(t) ==
    /\ local[t].pc = "dump_json"
    /\ fs' = WriteFile(fs, local[t].json_path, ReportContent("json"))
    /\ local' = [local EXCEPT ![t].pc = "report_path"]
    /\ UNCHANGED <<running, src_dir, out_dir, logBox, progress, dirs, main, clicks, fs0>>

\* report_path = os.path.join(self.out_dir, "dedupe_session_report.md")
ReportPath(t) ==
    /\ local[t].pc = "report_path"
    /\ local' = [local EXCEPT ![t] =
                   [@ EXCEPT !.report_path = join(out_dir, <<"dedupe_session_report", ".md">>),
                             !.pc = "log_md"]]
    /\ UNCHANGED <<running, src_dir, out_dir, logBox, progress, fs, dirs, main, clicks, fs0>>

\* self.log("Writing Markdown report:", report_path)
LogMd(t) ==
    /\ local[t].pc = "log_md"
    /\ logBox' = Insert(logBox, LogLine("Writing Markdown report:", local[t].report_path))
    /\ local' = [local EXCEPT ![t].pc = "write_md"]
    /\ UNCHANGED <<running, src_dir, out_dir, progress, fs, dirs, main, clicks, fs0>>

\* MARKDOWN SESSION REPORT: with open(report_path, "w", ...) as rf
OpenMd(t, ok) ==
    /\ local[t].pc = "write_md"
    /\ IF ok /\ DirOk(local[t].report_path)
       THEN /\ fs' = WriteFile(fs, local[t].report_path, EmptyFile)
            /\ local' = [local EXCEPT ![t].pc = "dump_md"]
       ELSE /\ local' = [local EXCEPT ![t] = Leave(@, "OSError")]
            /\ UNCHANGED fs
    /\ UNCHANGED <<running, src_dir, out_dir, logBox, progress, dirs, main, clicks, fs0>>

\* the lines of the report are written and the file is closed
WriteMd(t) ==
    /\ local[t].pc = "dump_md"
    /\ fs' = WriteFile(fs, local[t].report_path, ReportContent("md"))
    /\ local' = [local EXCEPT ![t].pc = "log_complete"]
    /\ UNCHANGED <<running, src_dir, out_dir, logBox, progress, dirs, main, clicks, fs0>>

\* self.log("Dedupe complete!")
LogComplete(t) ==
    /\ local[t].pc = "log_complete"
    /\ logBox' = Insert(logBox, LogLine("Dedupe complete!", <<>>))
    /\ local' = [local EXCEPT ![t] = Leave(@, "none")]
    /\ UNCHANGED <<running, src_dir, out_dir, progress, fs, dirs, main, clicks, fs0>>

\* one statement of dedupe_process on thread t
Worker(t) ==
    \/ ScanLog(t) \/ Scan(t) \/ find_images_recursive(t) \/ SetMaximum(t) \/ LogFound(t)
    \/ EmptyReturn(t)
    \/ LogHashing(t) \/ HashNext(t) \/ OpenImage(t) \/ HashOne(t) \/ LogFailed(t)
    \/ SetValue(t) \/ HashDone(t)
    \/ LogFinding(t) \/ Outer(t) \/ Inner(t) \/ InnerDone(t) \/ OuterDone(t)
    \/ MkdirOut(t) \/ JoinTrash(t) \/ SafeMkdirTest(t) \/ MakedirsHead(t) \/ SafeMkdirMake(t)
    \/ LogCopying(t)
    \/ CopyKeptDst(t) \/ CopyKeptTest(t) \/ CopyKept(t) \/ CopyKeptWrite(t) \/ CopyKeptDone(t)
    \/ CopyTrash(t) \/ CopyTrashWrite(t) \/ CopyTrashDone(t)
    \/ LogCsv(t) \/ LogTrashCsv(t) \/ JsonPath(t) \/ JsonSrc(t) \/ JsonOut(t)
    \/ ReportPath(t) \/ LogMd(t) \/ LogComplete(t)
    \/ \E ok \in BOOLEAN : OpenCsv(t, ok) \/ OpenTrashCsv(t, ok) \/ OpenJson(t, ok) \/ OpenMd(t, ok)
    \/ WriteCsv(t) \/ WriteTrashCsv(t) \/ WriteJson(t) \/ WriteMd(t)
    \/ Finally(t)

(***************************************************************************)
(* Spec: the comparison loop of one thread, started on every list of at    *)
(* most MaxRecords ImageRecords with pairwise distinct paths               *)
(***************************************************************************)
SourceDir == <<"s">>
OutputDir == <<"o">>

Stems == <<"a", "b", "c", "d", "e", "f">>

\* perceptual hashes at distances 1, 4, 5, 6 and 10 of one another
HashVals == {{}, 1..5, 1..6, 1..10}

\* sizes with equal and with different areas
Resolutions == {<<1, 1>>, <<2, 3>>, <<3, 2>>, <<3, 3>>}

ImageContents == [kind : {"image"}, hash : HashVals, resolution : Resolutions]

RecordPath(n) == join(SourceDir, <<Stems[n], ".jpg">>)

InitCluster ==
    \E n \in 1..MaxRecords :
      \E content \in [1..n -> ImageContents] :
        /\ clicks = 1
        /\ running = TRUE
        /\ src_dir = SourceDir
        /\ out_dir = OutputDir
        /\ dirs = {SourceDir, OutputDir}
        /\ fs = [p \in {RecordPath(m) : m \in 1..n} |->
                   content[CHOOSE m \in 1..n : RecordPath(m) = p]]
        /\ fs0 = fs
        /\ progress = [maximum |-> n, value |-> n - 1]
        /\ logBox = SetToBag({LogLine("Scanning for images...", <<>>),
                               LogLine("Found images.", n),
                               LogLine("Computing perceptual hashes...", <<>>),
                               LogLine("Hashing complete.", <<>>),
                               LogLine("Finding duplicates...", <<>>)})
        /\ main = MainIdle
        /\ local = [t \in Threads |->
                      IF t = 1
                      THEN [NewThread EXCEPT
                              !.pc = "outer",
                              !.images = [m \in 1..n |-> RecordPath(m)],
                              !.total_files = n,
                              !.count = n,
                              !.hashes = [m \in 1..n |->
                                            [path |-> RecordPath(m),
                                             hash |-> content[m].hash,
                                             resolution |-> content[m].resolution,
                                             resolution_str |->
                                               format_resolution(content[m].resolution)]]]
                      ELSE NewThread]

NextCluster ==
    \E t \in Threads : Outer(t) \/ Inner(t) \/ InnerDone(t) \/ OuterDone(t)

Spec == InitCluster /\ [][NextCluster]_vars

(***************************************************************************)
(* Claims about the comparison loop                                        *)
(***************************************************************************)
\* the comparison loop of thread t has run to completion
PassDone(t) == local[t].pc = "mkdir_out"

RecordPaths(t) == {local[t].hashes[n].path : n \in 1..Len(local[t].hashes)}

\* C1: after the comparison loop has run to completion, every record's path is a
\* key of exactly one of kept and duplicates
C1_Partition ==
    \A t \in Threads :
      PassDone(t) =>
        \A p \in RecordPaths(t) :
          DictHas(local[t].kept, p) # DictHas(local[t].duplicates, p)

\* index in hashes of the record of path p
IndexOf(t, p) == CHOOSE n \in 1..Len(local[t].hashes) : local[t].hashes[n].path = p

RecordOf(t, p) == local[t].hashes[IndexOf(t, p)]

\* the edges recorded so far, as <<removed path, kept_path, distance>>
Edges(t) ==
    {<<local[t].duplicates[n][1], local[t].duplicates[n][2][1], local[t].duplicates[n][2][2]>> :
        n \in 1..Len(local[t].duplicates)}

\* C4: every edge the comparison loop records demotes the record of smaller area in
\* favour of one of strictly greater area, or, the areas being equal, the
\* later-indexed record in favour of the earlier-indexed one
C4_TieBreak ==
    \A t \in Threads :
      \A e \in Edges(t) :
        LET removed == RecordOf(t, e[1])
            keeper == RecordOf(t, e[2])
        IN  \/ Area(removed.resolution) < Area(keeper.resolution)
            \/ /\ Area(removed.resolution) = Area(keeper.resolution)
               /\ IndexOf(t, e[2]) < IndexOf(t, e[1])

\* a finished pass that recorded an edge on an area tie and an edge that demotes an
\* anchor in favour of a later record of greater area
C4_Witness ==
    \E t \in Threads :
      /\ PassDone(t)
      /\ \E e \in Edges(t) :
           Area(RecordOf(t, e[1]).resolution) = Area(RecordOf(t, e[2]).resolution)
      /\ \E e \in Edges(t) :
           /\ Area(RecordOf(t, e[1]).resolution) < Area(RecordOf(t, e[2]).resolution)
           /\ IndexOf(t, e[1]) < IndexOf(t, e[2])

\* C5: no edge is ever recorded between two records of identical (width, height),
\* and a run on exactly two records within the threshold and of identical
\* resolution ends with both kept and no duplicate
C5_ResolutionTie ==
    \A t \in Threads :
      /\ \A e \in Edges(t) :
           RecordOf(t, e[1]).resolution # RecordOf(t, e[2]).resolution
      /\ (/\ PassDone(t)
          /\ Len(local[t].hashes) = 2
          /\ HashSub(local[t].hashes[1].hash, local[t].hashes[2].hash)
                <= HASH_DISTANCE_THRESHOLD
          /\ local[t].hashes[1].resolution = local[t].hashes[2].resolution)
         => /\ DictKeys(local[t].kept) = RecordPaths(t)
            /\ local[t].duplicates = <<>>

\* a finished run on two records at distance 5 of identical resolution
C5_Witness ==
    \E t \in Threads :
      /\ PassDone(t)
      /\ Len(local[t].hashes) = 2
      /\ HashSub(local[t].hashes[1].hash, local[t].hashes[2].hash) = 5
      /\ local[t].hashes[1].resolution = local[t].hashes[2].resolution
      /\ Len(local[t].kept) = 2

\* the inner loop of thread t is about to compare A with a record B that is no
\* duplicates key and has another resolution, at distance d
AboutToCompare(t, d) ==
    /\ local[t].pc = "inner"
    /\ local[t].j < Len(local[t].hashes)
    /\ LET A == local[t].hashes[local[t].i + 1]
           B == local[t].hashes[local[t].j + 1]
       IN  /\ ~DictHas(local[t].duplicates, B.path)
           /\ A.resolution # B.resolution
           /\ HashSub(A.hash, B.hash) = d

\* C6: the threshold is inclusive: comparing two records of different resolution at
\* distance exactly 5 records an edge between them, and at distance 6 the step
\* changes neither kept nor duplicates
C6_ThresholdInclusive ==
    [][\A t \in Threads :
         /\ AboutToCompare(t, HASH_DISTANCE_THRESHOLD)
            => LET A == local[t].hashes[local[t].i + 1]
                   B == local[t].hashes[local[t].j + 1]
               IN  \/ <<B.path, A.path, HASH_DISTANCE_THRESHOLD>> \in Edges(t)'
                   \/ <<A.path, B.path, HASH_DISTANCE_THRESHOLD>> \in Edges(t)'
         /\ AboutToCompare(t, HASH_DISTANCE_THRESHOLD + 1)
            => /\ local'[t].duplicates = local[t].duplicates
               /\ local'[t].kept = local[t].kept]_vars

\* a finished pass with an edge at distance 5 and two kept records of different
\* resolution at distance 6
C6_Witness ==
    \E t \in Threads :
      /\ PassDone(t)
      /\ \E e \in Edges(t) : e[3] = HASH_DISTANCE_THRESHOLD
      /\ \E m, n \in 1..Len(local[t].hashes) :
           /\ m < n
           /\ DictHas(local[t].kept, local[t].hashes[m].path)
           /\ DictHas(local[t].kept, local[t].hashes[n].path)
           /\ ~DictHas(local[t].duplicates, local[t].hashes[m].path)
           /\ ~DictHas(local[t].duplicates, local[t].hashes[n].path)
           /\ local[t].hashes[m].resolution # local[t].hashes[n].resolution
           /\ HashSub(local[t].hashes[m].hash, local[t].hashes[n].hash)
                = HASH_DISTANCE_THRESHOLD + 1

(***************************************************************************)
(* SpecRun: a session of one Start click, valid or not, and the run of     *)
(* dedupe_process it starts, from the click to the end of the thread, on   *)
(* every file tree of at most MaxFiles image files                         *)
(***************************************************************************)
\* where image files may lie under the source directory
CandidatePaths ==
    {join(SourceDir, <<"x", ".jpg">>),
     join(SourceDir, <<"y", ".JPG">>),
     join(joindir(SourceDir, "a"), <<"x", ".jpg">>),
     join(joindir(SourceDir, "trash"), <<"x", ".jpg">>)}

\* three images of one hash and different sizes, an image at distance 6 of
\* them, and a file Image.open cannot read
SourceContents ==
    {[kind |-> "image", hash |-> {}, resolution |-> <<1, 1>>],
     [kind |-> "image", hash |-> {}, resolution |-> <<2, 3>>],
     [kind |-> "image", hash |-> {}, resolution |-> <<3, 2>>],
     [kind |-> "image", hash |-> 1..6, resolution |-> <<1, 1>>],
     [kind |-> "corrupt", hash |-> {}, resolution |-> <<0, 0>>]}

\* files that are there whatever the images are: a text file in the source
\* directory, and the copy of x.jpg an earlier run left in the output directory
NotesFile == join(SourceDir, <<"notes", ".txt">>)
EarlierCopy == join(OutputDir, <<"x", ".jpg">>)
EarlierContent == [kind |-> "image", hash |-> 1..10, resolution |-> <<1, 1>>]

AllDirs == {SourceDir, OutputDir, joindir(SourceDir, "a"), joindir(SourceDir, "trash")}

\* what the user may have typed in the two entries when Start is clicked
SrcEntries == {SourceDir, <<"missing">>}
OutEntries == {OutputDir, SourceDir, joindir(SourceDir, "a"), <<>>}

InitRun ==
    \E present \in SUBSET CandidatePaths :
      \E content \in [present -> SourceContents] :
        /\ Cardinality(present) <= MaxFiles
        /\ clicks = 0
        /\ running = FALSE
        /\ src_dir = <<>>
        /\ out_dir = <<>>
        /\ dirs = AllDirs
        /\ fs = [p \in present \cup {NotesFile, EarlierCopy} |->
                   IF p \in present THEN content[p]
                   ELSE IF p = NotesFile THEN ReportContent("text")
                   ELSE EarlierContent]
        /\ fs0 = fs
        /\ progress = [maximum |-> 100, value |-> 0]
        /\ logBox = EmptyBag
        /\ main = MainIdle
        /\ local = [t \in Threads |-> NewThread]

\* no button has been clicked and no thread has been started yet
NoRunYet == clicks = 0 /\ \A t \in Threads : local[t].pc = "new"

Start == \E src \in SrcEntries, out \in OutEntries : start_dedupe(src, out)

NextRun == (NoRunYet /\ Start) \/ StartStep \/ \E t \in Threads : Worker(t)

SpecRun == InitRun /\ [][NextRun]_vars

(***************************************************************************)
(* Claims about a whole run                                                *)
(***************************************************************************)
\* thread t has written the session summary and ended without an exception
Completed(t) ==
    /\ local[t].pc = "done"
    /\ local[t].exc = "none"
    /\ local[t].json_data # <<>>

\* C2: in a completed run with no decode failure the session summary has
\* total_kept + total_duplicates = total_scanned
C2_ReportConsistency ==
    \A t \in Threads :
      (Completed(t) /\ Len(local[t].hashes) = Len(local[t].images))
      => local[t].json_data[1].total_kept + local[t].json_data[1].total_duplicates
           = local[t].json_data[1].total_scanned

\* C3: in a completed run where files failed to decode, total_scanned is the number
\* of ImageRecords produced
C3_ScannedCountsHashed ==
    \A t \in Threads :
      (Completed(t) /\ Len(local[t].hashes) < Len(local[t].images))
      => local[t].json_data[1].total_scanned = Len(local[t].hashes)

\* C7: once start_dedupe has accepted the two directories, every file that was under
\* the source directory keeps its original content
C7_SourceUntouched ==
    (\E t \in Threads : local[t].pc # "new")
    => \A p \in DOMAIN fs0 :
         IsPrefix(src_dir, p.dir) => (p \in DOMAIN fs /\ fs[p] = fs0[p])

\* the four report artifacts of thread t
ArtifactPaths(t) ==
    {join(out_dir, <<"duplicate_log", ".csv">>),
     join(local[t].trash_dir, <<"duplicate_details", ".csv">>),
     join(out_dir, <<"dedupe_session", ".json">>),
     join(out_dir, <<"dedupe_session_report", ".md">>)}

\* C9: a run in which the writing of one report artifact failed still ends with the
\* other three artifacts written and with the failure in the log
C9_ReportFailureTolerated ==
    \A t \in Threads :
      (local[t].pc = "done" /\ local[t].exc = "OSError")
      => /\ Cardinality(ArtifactPaths(t) \cap DOMAIN fs) >= 3
         /\ \E line \in BagToSet(logBox) : line.msg = "Failed to write:"

\* the records of the files among the first n of images that decode, in order
RECURSIVE Decoded(_, _)
Decoded(images, n) ==
    IF n = 0 THEN <<>>
    ELSE IF fs0[images[n]].kind = "image"
         THEN Append(Decoded(images, n - 1),
                     [path |-> images[n],
                      hash |-> fs0[images[n]].hash,
                      resolution |-> fs0[images[n]].resolution,
                      resolution_str |-> format_resolution(fs0[images[n]].resolution)])
         ELSE Decoded(images, n - 1)

\* the number of files of images the try block of the hashing loop has been through
Tried(t) == local[t].count + (IF local[t].pc \in {"log_failed", "set_value"} THEN 1 ELSE 0)

\* the number of files of images whose iteration has passed its except clause
Logged(t) == local[t].count + (IF local[t].pc = "set_value" THEN 1 ELSE 0)

\* the labels of dedupe_process up to the end of the hashing loop
BeforeOrInHashing ==
    {"new", "scan", "walk", "walking", "set_maximum", "log_found", "empty", "log_hashing",
     "hash", "decode", "phash", "log_failed", "set_value"}

\* C10: a file that fails to decode yields no ImageRecord and a line in the log, the
\* records of the files before it stay and the files after it are hashed: at every
\* point hashes holds exactly the records of the decodable files met so far, and
\* the thread ends only after the last file
C10_DecodeFailureIsolated ==
    \A t \in Threads :
      local[t].pc \notin {"new", "scan", "walk", "walking"} =>
        /\ local[t].hashes = Decoded(local[t].images, Tried(t))
        /\ \A n \in 1..Logged(t) :
             fs0[local[t].images[n]].kind # "image"
             => BagIn(LogLine("Failed to read:", local[t].images[n]), logBox)
        /\ local[t].pc \in {"finally", "done"} => local[t].count = Len(local[t].images)
        /\ local[t].pc \notin BeforeOrInHashing \cup {"finally", "done"}
           => local[t].count = Len(local[t].images)

\* the comparison loop has been reached with a record from before and a record
\* from after a file that failed to decode
C10_Witness ==
    \E t \in Threads :
      /\ local[t].pc = "outer"
      /\ \E n \in 2..(Len(local[t].images) - 1) :
           /\ fs0[local[t].images[n]].kind # "image"
           /\ fs0[local[t].images[n - 1]].kind = "image"
           /\ fs0[local[t].images[n + 1]].kind = "image"
      /\ Len(local[t].hashes) = 2

\* the image files that lie directly in the trash directory of thread t
TrashImages(t) ==
    {p \in DOMAIN fs : p.dir = local[t].trash_dir
                       /\ lower(splitext1(p.name)) \in VALID_EXTS}

\* thread t has copied every duplicate to the trash directory
TrashCopied(t) == local[t].pc = "log_csv"

\* C11: once the duplicates are copied, a trash directory that held no image before
\* the run holds as many image files as duplicates has entries
C11_OneTrashFilePerDuplicate ==
    \A t \in Threads :
      (/\ TrashCopied(t)
       /\ \A p \in DOMAIN fs0 : p.dir # local[t].trash_dir)
      => Cardinality(TrashImages(t)) = Len(local[t].duplicates)

\* C12: whenever a step of the comparison loop records an edge, the kept_path of
\* that edge is not a key of duplicates at that moment
C12_KeptPathNotRemoved ==
    [][\A t \in Threads :
         \A e \in Edges(t)' \ Edges(t) :
           ~DictHas(local'[t].duplicates, e[2])]_vars

\* C13: a path that is a key of duplicates keeps its (kept_path, distance) through
\* every later step of the comparison loop
C13_OneEdgePerRemovedPath ==
    [][\A t \in Threads :
         \A p \in DictKeys(local[t].duplicates) :
           /\ DictHas(local'[t].duplicates, p)
           /\ DictGet(local'[t].duplicates, p) = DictGet(local[t].duplicates, p)]_vars

\* C14: in the session summary of a completed run every key of the clusters mapping
\* is a key of kept and is not a key of duplicates
C14_ClusterHeadKept ==
    \A t \in Threads :
      Completed(t) =>
        \A p \in DictKeys(local[t].clusters) :
          /\ DictHas(local[t].kept, p)
          /\ ~DictHas(local[t].duplicates, p)

(***************************************************************************)
(* The clustering algorithm as the documentation states it, on maps kept   *)
(* and duplicates given as functions from paths                            *)
(***************************************************************************)
hamming(x, y) == Cardinality((x \ y) \cup (y \ x))

area(resolution) == resolution[1] * resolution[2]

Without(f, key) == [p \in DOMAIN f \ {key} |-> f[p]]

With(f, key, val) == [p \in DOMAIN f \cup {key} |-> IF p = key THEN val ELSE f[p]]

\* "for j in i+1..n-1" under the anchor A, from the 1-based position j on
RECURSIVE PseudoInner(_, _, _, _, _)
PseudoInner(records, A, j, K, D) ==
    IF j > Len(records) THEN <<K, D>>
    ELSE LET B == records[j]
             distance == hamming(A.hash, B.hash)
         IN  IF B.path \in DOMAIN D THEN PseudoInner(records, A, j + 1, K, D)
             ELSE IF distance > HASH_DISTANCE_THRESHOLD THEN PseudoInner(records, A, j + 1, K, D)
             ELSE IF A.resolution = B.resolution THEN PseudoInner(records, A, j + 1, K, D)
             ELSE IF area(A.resolution) >= area(B.resolution)
                  THEN PseudoInner(records, A, j + 1, K, With(D, B.path, <<A.path, distance>>))
                  ELSE PseudoInner(records, A, j + 1,
                                   With(Without(K, A.path), B.path, B),
                                   With(D, A.path, <<B.path, distance>>))

\* "for i in 0..n-1", from the 1-based position i on
RECURSIVE PseudoOuter(_, _, _, _)
PseudoOuter(records, i, K, D) ==
    IF i > Len(records) THEN <<K, D>>
    ELSE LET A == records[i]
         IN  IF A.path \in DOMAIN D THEN PseudoOuter(records, i + 1, K, D)
             ELSE LET r == PseudoInner(records, A, i + 1,
                                       IF A.path \in DOMAIN K THEN K ELSE With(K, A.path, A), D)
                  IN  PseudoOuter(records, i + 1, r[1], r[2])

Pseudocode(records) == PseudoOuter(records, 1, <<>>, <<>>)

\* the dict d read as a function from its keys
AsFunction(d) == [p \in DictKeys(d) |-> DictGet(d, p)]

\* C17: with no cancellation, the comparison loop run to completion leaves the kept
\* map and the duplicate map that the documented pseudocode computes from the same
\* ordered list of records
C17_MatchesPseudocode ==
    \A t \in Threads :
      PassDone(t) =>
        /\ AsFunction(local[t].kept) = Pseudocode(local[t].hashes)[1]
        /\ AsFunction(local[t].duplicates) = Pseudocode(local[t].hashes)[2]

\* a finished pass in which an anchor, demoted inside its own inner loop, was still
\* compared with a later record and cited as that record's kept_path
C17_Witness ==
    \E t \in Threads :
      /\ PassDone(t)
      /\ \E m, n \in 1..Len(local[t].duplicates) :
           /\ m < n
           /\ local[t].duplicates[n][2][1] = local[t].duplicates[m][1]
           /\ IndexOf(t, local[t].duplicates[m][1]) < IndexOf(t, local[t].duplicates[n][1])

\* the rows of duplicate_details.csv below the header, one per item of duplicates:
\* [dup_path, f"Lower resolution than {kept_path}, distance {dist}"]
TrashRows(duplicates) ==
    [n \in 1..Len(duplicates) |->
        <<duplicates[n][1],
          [reason |-> "Lower resolution than", kept_path |-> duplicates[n][2][1],
           distance |-> duplicates[n][2][2]]>>]

\* C18: every row of the trash reason log is true: the removed record has a strictly
\* smaller pixel area than the record at the kept path the row names, and the
\* distance the row gives is the Hamming distance of the two hashes and is at most
\* the threshold
C18_ReasonRowsTrue ==
    \A t \in Threads :
      PassDone(t) =>
        \A n \in 1..Len(local[t].duplicates) :
          LET row == TrashRows(local[t].duplicates)[n]
              removed == RecordOf(t, row[1])
              keeper == RecordOf(t, row[2].kept_path)
          IN  /\ Area(removed.resolution) < Area(keeper.resolution)
              /\ row[2].distance = HashSub(removed.hash, keeper.hash)
              /\ row[2].distance <= HASH_DISTANCE_THRESHOLD

\* C19: after the comparison loop has run to completion no two records that are both
\* keys of kept are within the threshold of each other and of different resolutions
C19_KeptSetDeduplicated ==
    \A t \in Threads :
      PassDone(t) =>
        \A p, q \in DictKeys(local[t].kept) :
          (p # q /\ RecordOf(t, p).resolution # RecordOf(t, q).resolution)
          => HashSub(RecordOf(t, p).hash, RecordOf(t, q).hash) > HASH_DISTANCE_THRESHOLD

(***************************************************************************)
(* SpecCancel: the comparison loop of one thread with the Cancel button    *)
(* clicked at any moment of it                                             *)
(***************************************************************************)
NextCancel ==
    \/ cancel \/ CancelLog
    \/ \E t \in Threads : Outer(t) \/ Inner(t) \/ InnerDone(t) \/ OuterDone(t) \/ Finally(t)

\* the comparison loop is started on records of two hashes, more than the threshold
\* apart, and of every resolution
InitCancel ==
    /\ InitCluster
    /\ \A n \in 1..Len(local[1].hashes) : local[1].hashes[n].hash \in {{}, 1..6}

SpecCancel == InitCancel /\ [][NextCancel]_vars

\* thread t is inside the comparison loop
InPass(t) == local[t].pc \in {"outer", "inner"}

\* C15: once the comparison loop has started it runs to completion: a step of a
\* thread inside the loop stays inside the loop or completes it, whatever the
\* Cancel button did
C15_PassRunsToCompletion ==
    [][\A t \in Threads :
         InPass(t) => (InPass(t)' \/ PassDone(t)')]_vars

(***************************************************************************)
(* SpecGui: the window from its construction, the Start and Cancel buttons *)
(* clicked at most MaxClicks times, and the interleavings of the statements*)
(* of the callbacks and of the worker threads the clicks create.  Both    *)
(* buttons are clicked at any moment.                                      *)
(***************************************************************************)
\* a source tree of an image, below it a file that does not decode, and below that
\* a smaller image of the same hash: os.walk has one order on it
GuiTree ==
    (join(SourceDir, <<"x", ".jpg">>) :> [kind |-> "image", hash |-> {}, resolution |-> <<2, 3>>])
    @@ (join(<<"s", "a">>, <<"x", ".jpg">>) :>
          [kind |-> "corrupt", hash |-> {}, resolution |-> <<0, 0>>])
    @@ (join(<<"s", "a", "b">>, <<"x", ".jpg">>) :>
          [kind |-> "image", hash |-> {}, resolution |-> <<1, 1>>])

\* a directory without files
EmptyDir == <<"e">>

InitGui ==
    /\ clicks = 0
    /\ running = FALSE
    /\ src_dir = <<>>
    /\ out_dir = <<>>
    /\ dirs = {SourceDir, <<"s", "a">>, <<"s", "a", "b">>, OutputDir, EmptyDir}
    /\ fs = GuiTree
    /\ fs0 = fs
    /\ progress = [maximum |-> 100, value |-> 0]
    /\ logBox = EmptyBag
    /\ main = MainIdle
    /\ local = [t \in Threads |-> NewThread]

\* what the two entries may hold when Start is clicked: the source tree and the
\* output directory, or an empty source directory, a missing source, no source,
\* or no output
GuiEntries ==
    {<<SourceDir, OutputDir>>, <<EmptyDir, OutputDir>>,
     <<(<<"missing">>), OutputDir>>, <<(<<>>), OutputDir>>, <<SourceDir, <<>>>>}

\* Start is clicked with one of these pairs in the entries
StartGui == \E e \in GuiEntries : start_dedupe(e[1], e[2])

NextGui ==
    \/ StartGui
    \/ cancel
    \/ StartStep
    \/ CancelLog
    \/ \E t \in Threads : Worker(t)

SpecGui == InitGui /\ [][NextGui]_vars

\* thread t is executing dedupe_process
Executing(t) == local[t].pc \notin {"new", "done"}

\* C16: at every moment at most one thread is executing dedupe_process
C16_SingleWorker ==
    Cardinality({t \in Threads : Executing(t)}) <= 1

(***************************************************************************)
(* SpecCopy: the window from its construction over a source directory that *)
(* is its own output directory and a second source directory, holding     *)
(* images of one name, the Start and Cancel buttons clicked at most        *)
(* MaxClicks times at any moment, and every interleaving of the statements *)
(* of the callbacks and of the worker threads                              *)
(***************************************************************************)
\* a second source directory
OtherDir == <<"r">>

\* a directory that is not there, nor is the directory it would lie in
NewDir == <<"m", "n">>

\* an image below the source directory and one in the second source directory,
\* of one name and of different content, and the larger image of that name an
\* earlier run on another output left in the trash directory below the source
\* directory
CopyTree ==
    (join(joindir(SourceDir, "a"), <<"x", ".jpg">>) :>
          [kind |-> "image", hash |-> {}, resolution |-> <<2, 3>>])
    @@ (join(OtherDir, <<"x", ".jpg">>) :>
          [kind |-> "image", hash |-> {}, resolution |-> <<1, 1>>])
    @@ (join(joindir(SourceDir, "trash"), <<"x", ".jpg">>) :>
          [kind |-> "image", hash |-> {}, resolution |-> <<3, 3>>])

InitCopy ==
    /\ clicks = 0
    /\ running = FALSE
    /\ src_dir = <<>>
    /\ out_dir = <<>>
    /\ dirs = {SourceDir, joindir(SourceDir, "a"), joindir(SourceDir, "trash"), OtherDir}
    /\ fs = CopyTree
    /\ fs0 = fs
    /\ progress = [maximum |-> 100, value |-> 0]
    /\ logBox = EmptyBag
    /\ main = MainIdle
    /\ local = [t \in Threads |-> NewThread]

\* Start is clicked with one of the two source directories in the source entry
\* and the first of them in the output entry, or with the directory that is not
\* there in the output entry, or with no source
StartCopy ==
    \E e \in {<<SourceDir, SourceDir>>, <<OtherDir, SourceDir>>, <<OtherDir, NewDir>>,
              <<(<<>>), SourceDir>>} :
      start_dedupe(e[1], e[2])

NextCopy ==
    \/ StartCopy
    \/ cancel
    \/ StartStep
    \/ CancelLog
    \/ \E t \in Threads : Worker(t)

SpecCopy == InitCopy /\ [][NextCopy]_vars

\* C8: the copy of a kept image never overwrites a file that exists at
\* OUT/<basename>: shutil.copy2 opens its destination for writing only where
\* no file is
C8_KeptCopyNoOverwrite ==
    [][\A t \in Threads :
         (local[t].pc = "copy2_kept" /\ local'[t].pc = "write_kept")
         => local[t].dst \notin DOMAIN fs]_vars

====
